---- MODULE Spec2Model ----
(***************************************************************************)
(* Model of the AI VTuber repository: the LRU audio cache of TextToSpeech  *)
(* (pailin_core/speech/tts.py, src/ai_vtube/text_to_speech.py and the      *)
(* root text2speech.py) and the publish/subscribe EventBus                 *)
(* (pailin_core/events/event_bus.py).                                      *)
(***************************************************************************)
EXTENDS Integers, Sequences, FiniteSets, TLC

(***************************************************************************)
(* Bounds of the model.                                                    *)
(***************************************************************************)
MaxTextLen == 2
MaxCacheSize == 2
MaxDepth == 2
HashSpace == 3
MaxRegistrations == 5

MaxRawLen == 3

MaxPoolRegistrations == 2

MaxThreadCalls == 2

(***************************************************************************)
(* Texts.  A text is a sequence of characters; "!", "~", "?" and "heart"   *)
(* (a pictograph) stand for the denylisted characters, "a" for the         *)
(* characters that are kept.                                               *)
(***************************************************************************)
Alphabet == {"a", "!"}

special_chars == {"!", "~", "?", "heart"}

Texts == UNION {[1..n -> Alphabet] : n \in 0..MaxTextLen}

IsKept(c) == c \notin special_chars

\* a denylist that holds the ASCII punctuation only
RemoveAsciiPunctuationOnly(text) == SelectSeq(text, LAMBDA c : c \notin {"!", "~", "?"})

\* text.translate(str.maketrans('', '', special_chars))
remove_special_characters(text) == SelectSeq(text, IsKept)

Keys == {remove_special_characters(t) : t \in Texts}

CharCode(c) == IF c = "a" THEN 1 ELSE 2

RECURSIVE Digest(_)
Digest(t) == IF t = <<>> THEN 0 ELSE Digest(SubSeq(t, 1, Len(t) - 1)) * 2 + CharCode(t[Len(t)])

\* hashlib.md5(text.encode()).hexdigest()[:10]: a digest cut to a fixed width
text_hash(t) == Digest(t) % HashSpace

\* os.path.join(temp_dir, f"tts_temp_{text_hash}.mp3"); a path is named by its hash
TempPath(t) == text_hash(t)

Paths == 0..(HashSpace - 1)

NoKey == <<"none">>

NoPath == -1

\* characters of every class: a Latin letter, a Thai letter, a digit, a space,
\* and four characters of the denylist
Characters == {"a", "ko_kai", "7", " ", "!", "~", "?", "heart"}

RawTexts == UNION {[1..n -> Characters] : n \in 0..MaxRawLen}

(***************************************************************************)
(* State of TextToSpeech, of the disk, and of the running speak call.      *)
(***************************************************************************)
VARIABLES
    variant,        \* "core": tts.py and ai_vtube/text_to_speech.py; "root": text2speech.py
    cache_size,     \* self.cache_size
    cache,          \* self.cache: text -> path
    cache_order,    \* self.cache_order
    files,          \* paths that exist on disk
    tpc,            \* position of the caller in speak: "idle" or "play"
    filtered_text,  \* the key of the speak call in progress
    temp_path,      \* the path handed to playback
    depth,          \* recursion depth of speak (root variant)
    recency,        \* the cached keys, the least recently touched first
    birth,          \* the cached keys, the earliest inserted first
    kept,           \* keys inserted and not evicted since
    dropped,        \* keys invalidated by a playback failure since their insertion
    last            \* what the last step did

ttsVars == <<variant, cache_size, cache, cache_order, files, tpc, filtered_text,
             temp_path, depth, recency, birth, kept, dropped, last>>

(***************************************************************************)
(* State of EventBus and of the emit calls in progress.                    *)
(***************************************************************************)
VARIABLES
    handlers,           \* self._handlers: event type -> list of handlers
    wildcard_handlers,  \* self._wildcard_handlers
    emits,              \* per emitting task: the emit call it is in
    done,               \* the emit call that has just ended, if the last step ended one
    cleared,            \* whether clear() returned and nothing was subscribed since
    called              \* what the last registration call found

busVars == <<handlers, wildcard_handlers, emits, done, cleared, called>>

\* a thread other than the event loop's, inside EventBus.clear
VARIABLES
    clear_pc,          \* "idle", "handlers_cleared" (between the two statements), "returned"
    pre_clear          \* history: the registrations when that clear() was called

raceVars == <<clear_pc, pre_clear>>

(***************************************************************************)
(* State of the application process: main, AIVtuber.run and the turn in    *)
(* progress.                                                               *)
(***************************************************************************)
VARIABLES
    env_key,      \* os.getenv("GEMINI_API_KEY"): "unset", "" or "key"
    apc,          \* position of the process
    configured,   \* genai.configure has been called
    chat,         \* self.chat of the Chatbot: "none" or "session"
    turn,         \* the calls and findings of the turn in progress
    inflight,     \* the provider calls begun and not yet ended
    ended_by,     \* why the process left the turn loop or ended
    exit_status   \* the status the process exits with; -1 while it runs

appVars == <<env_key, apc, configured, chat, turn, inflight, ended_by, exit_status>>

(***************************************************************************)
(* A call of remove_special_characters and a second call on its result.    *)
(***************************************************************************)
VARIABLES
    raw_text,     \* the argument of the first call
    clean_text,   \* remove_special_characters(raw_text)
    clean_twice,  \* remove_special_characters(clean_text)
    spc           \* how many calls were made: "idle", "input", "once" or "twice"

textVars == <<raw_text, clean_text, clean_twice, spc>>

(***************************************************************************)
(* Several tasks of the event loop that emit, and the threads their        *)
(* handlers keep busy.                                                     *)
(***************************************************************************)
VARIABLES
    inv_state,    \* per task: the invocation its emit awaits: "none", "running", "ok", "exception"
    unawaited,    \* invocations still running that no emit awaits any more
    subscribing,  \* no emit was called yet
    during,       \* per task: its emit was called while a sync handler of another emit,
                  \* which is still running, ran: "no", "called", "returned"
    earlier       \* per task: an earlier emit of the task invoked handlers and returned

poolVars == <<inv_state, unawaited, subscribing, during, earlier>>

(***************************************************************************)
(* Threads that call on and off without the event loop between them.       *)
(***************************************************************************)
VARIABLES
    calls         \* per thread: the call it is in, and how many it has made

threadVars == <<calls>>

vars == <<ttsVars, busVars, raceVars, appVars, textVars, poolVars, threadVars>>

Variants == {"core", "root"}

EmptyMap == [k \in {} |-> NoPath]

\* dict.pop(key)
DictPop(d, key) == [k \in (DOMAIN d) \ {key} |-> d[k]]

\* d[key] = value
DictSet(d, key, value) == [k \in (DOMAIN d) \cup {key} |-> IF k = key THEN value ELSE d[k]]

\* list.remove(x): drops the first occurrence
ListRemove(s, x) ==
    IF \E i \in 1..Len(s) : s[i] = x
    THEN LET i == CHOOSE i \in 1..Len(s) : s[i] = x /\ \A j \in 1..(i - 1) : s[j] # x
         IN SubSeq(s, 1, i - 1) \o SubSeq(s, i + 1, Len(s))
    ELSE s

Range(s) == {s[i] : i \in 1..Len(s)}

NoOp == [op |-> "none", key |-> NoKey, synth |-> FALSE, evicted |-> NoKey,
         firstBorn |-> NoKey, rmOk |-> TRUE, after |-> "none"]

(***************************************************************************)
(* TextToSpeech._update_cache on the state st = [cache, cache_order,       *)
(* files]; rmOk tells whether os.remove succeeds (an OSError is swallowed).*)
(***************************************************************************)
UpdateCacheNoEvict(st, text, file_path, rmOk) ==
    LET o == IF text \in DOMAIN st.cache THEN ListRemove(st.cache_order, text)
             ELSE st.cache_order
    IN [cache |-> DictSet(st.cache, text, file_path),
        cache_order |-> Append(o, text),
        files |-> st.files,
        evicted |-> NoKey]

\* _update_cache without its first branch: a full cache always loses its oldest entry
UpdateCacheEvictsOnRefresh(st, text, file_path, rmOk) ==
    IF Cardinality(DOMAIN st.cache) >= cache_size /\ st.cache_order # <<>>
    THEN LET oldest_text == Head(st.cache_order)
             oldest_path == st.cache[oldest_text]
             popped == DictPop(st.cache, oldest_text)
         IN [cache |-> DictSet(popped, text, file_path),
             cache_order |-> Append(ListRemove(Tail(st.cache_order), text), text),
             files |-> IF oldest_path \in st.files /\ oldest_path # file_path /\ rmOk
                       THEN st.files \ {oldest_path}
                       ELSE st.files,
             evicted |-> oldest_text]
    ELSE [cache |-> DictSet(st.cache, text, file_path),
          cache_order |-> Append(ListRemove(st.cache_order, text), text),
          files |-> st.files,
          evicted |-> NoKey]

\* _update_cache without the comparison of the two paths: the file of the
\* evicted entry is removed even when it is the file being inserted
UpdateCacheRemovesShared(st, text, file_path, rmOk) ==
    IF text \in DOMAIN st.cache
    THEN [cache |-> DictSet(st.cache, text, file_path),
          cache_order |-> Append(ListRemove(st.cache_order, text), text),
          files |-> st.files,
          evicted |-> NoKey]
    ELSE IF Cardinality(DOMAIN st.cache) >= cache_size /\ st.cache_order # <<>>
    THEN LET oldest_text == Head(st.cache_order)
             oldest_path == st.cache[oldest_text]
             popped == DictPop(st.cache, oldest_text)
         IN [cache |-> DictSet(popped, text, file_path),
             cache_order |-> Append(Tail(st.cache_order), text),
             files |-> IF oldest_path \in st.files /\ rmOk
                       THEN st.files \ {oldest_path}
                       ELSE st.files,
             evicted |-> oldest_text]
    ELSE [cache |-> DictSet(st.cache, text, file_path),
          cache_order |-> Append(st.cache_order, text),
          files |-> st.files,
          evicted |-> NoKey]

UpdateCache(st, text, file_path, rmOk) ==
    IF text \in DOMAIN st.cache
    THEN [cache |-> DictSet(st.cache, text, file_path),
          cache_order |-> Append(ListRemove(st.cache_order, text), text),
          files |-> st.files,
          evicted |-> NoKey]
    ELSE IF Cardinality(DOMAIN st.cache) >= cache_size /\ st.cache_order # <<>>
    THEN LET oldest_text == Head(st.cache_order)
             oldest_path == st.cache[oldest_text]
             popped == DictPop(st.cache, oldest_text)
         IN [cache |-> DictSet(popped, text, file_path),
             cache_order |-> Append(Tail(st.cache_order), text),
             files |-> IF oldest_path \in st.files /\ oldest_path # file_path /\ rmOk
                       THEN st.files \ {oldest_path}
                       ELSE st.files,
             evicted |-> oldest_text]
    ELSE [cache |-> DictSet(st.cache, text, file_path),
          cache_order |-> Append(st.cache_order, text),
          files |-> st.files,
          evicted |-> NoKey]

IsHitWrongFileTest(st, key) == key \in DOMAIN st.cache /\ st.cache[key] \notin st.files

\* the test of speak: the key is cached and its file exists
IsHit(st, key) == key \in DOMAIN st.cache /\ st.cache[key] \in st.files

SpeakLookupNoTouch(st, key, rmOk) ==
    IF IsHit(st, key)
    THEN [cache |-> st.cache,
          cache_order |-> st.cache_order,
          files |-> st.files,
          evicted |-> NoKey,
          temp_path |-> st.cache[key],
          synth |-> FALSE]
    ELSE LET p == TempPath(key)
             saved == [st EXCEPT !.files = st.files \cup {p}]
             u == UpdateCache(saved, key, p, rmOk)
         IN [cache |-> u.cache,
             cache_order |-> u.cache_order,
             files |-> u.files,
             evicted |-> u.evicted,
             temp_path |-> p,
             synth |-> TRUE]

\* speak whose hit branch checks the capacity: a hit in a full cache drops the
\* least recently used other entry
SpeakLookupHitChecksCapacity(st, key, rmOk) ==
    IF IsHit(st, key)
    THEN IF Cardinality(DOMAIN st.cache) >= cache_size /\ Head(st.cache_order) # key
         THEN [cache |-> DictPop(st.cache, Head(st.cache_order)),
               cache_order |-> Append(ListRemove(Tail(st.cache_order), key), key),
               files |-> st.files,
               evicted |-> NoKey,
               temp_path |-> st.cache[key],
               synth |-> FALSE]
         ELSE [cache |-> st.cache,
               cache_order |-> Append(ListRemove(st.cache_order, key), key),
               files |-> st.files,
               evicted |-> NoKey,
               temp_path |-> st.cache[key],
               synth |-> FALSE]
    ELSE LET p == TempPath(key)
             saved == [st EXCEPT !.files = st.files \cup {p}]
             u == UpdateCache(saved, key, p, rmOk)
         IN [cache |-> u.cache,
             cache_order |-> u.cache_order,
             files |-> u.files,
             evicted |-> u.evicted,
             temp_path |-> p,
             synth |-> TRUE]

\* speak up to the try block, for an already filtered text and a synthesis that succeeds
SpeakLookup(st, key, rmOk) ==
    IF IsHit(st, key)
    THEN [cache |-> st.cache,
          cache_order |-> Append(ListRemove(st.cache_order, key), key),
          files |-> st.files,
          evicted |-> NoKey,
          temp_path |-> st.cache[key],
          synth |-> FALSE]
    ELSE LET p == TempPath(key)
             saved == [st EXCEPT !.files = st.files \cup {p}]
             u == UpdateCache(saved, key, p, rmOk)
         IN [cache |-> u.cache,
             cache_order |-> u.cache_order,
             files |-> u.files,
             evicted |-> u.evicted,
             temp_path |-> p,
             synth |-> TRUE]

\* the except block of speak, removing the file of the entry as well
InvalidateDeletesFile(st, key) ==
    IF key \in DOMAIN st.cache
    THEN [cache |-> DictPop(st.cache, key),
          cache_order |-> ListRemove(st.cache_order, key),
          files |-> st.files \ {st.cache[key]}]
    ELSE st

\* the except block of speak that pops the mapping and leaves the recency list
InvalidateKeepsOrder(st, key) ==
    IF key \in DOMAIN st.cache
    THEN [cache |-> DictPop(st.cache, key),
          cache_order |-> st.cache_order,
          files |-> st.files]
    ELSE st

\* the except block of speak: the entry of the text is dropped, no file is removed
Invalidate(st, key) ==
    IF key \in DOMAIN st.cache
    THEN [cache |-> DictPop(st.cache, key),
          cache_order |-> ListRemove(st.cache_order, key),
          files |-> st.files]
    ELSE st

Now == [cache |-> cache, cache_order |-> cache_order, files |-> files]

\* a touch of key (an insertion or a hit) makes it the most recently touched
Touch(order, key) == Append(SelectSeq(order, LAMBDA k : k # key), key)

\* a key that left the cache is forgotten
Forget(order, key) == SelectSeq(order, LAMBDA k : k # key)

Observed(op, key, synth, evicted) ==
    [op |-> op, key |-> key, synth |-> synth, evicted |-> evicted,
     firstBorn |-> IF evicted # NoKey /\ birth # <<>> THEN Head(birth) ELSE NoKey,
     rmOk |-> TRUE, after |-> "none"]

\* one entry into speak on the state st whose synthesis (if any) succeeds: the
\* lookup, then playback starts
Enter(st, key, rmOk, d) ==
    LET r == SpeakLookup(st, key, rmOk)
    IN /\ cache' = r.cache
       /\ cache_order' = r.cache_order
       /\ files' = r.files
       /\ temp_path' = r.temp_path
       /\ filtered_text' = key
       /\ tpc' = "play"
       /\ depth' = d
       /\ recency' = Touch(Forget(recency, r.evicted), key)
       /\ birth' = IF key \in DOMAIN st.cache THEN birth
                   ELSE Append(Forget(Forget(birth, r.evicted), key), key)
       /\ kept' = IF r.synth THEN (kept \ {r.evicted}) \cup {key} ELSE kept
       /\ dropped' = IF r.synth THEN dropped \ {key} ELSE dropped
       /\ last' = [Observed(IF d > 0 THEN "retry" ELSE IF r.synth THEN "miss" ELSE "hit",
                            key, r.synth, r.evicted) EXCEPT !.rmOk = rmOk]

\* os.remove is reached only when a miss evicts an entry whose file exists and is
\* not the file being inserted; only then can it succeed or raise OSError
RemoveOutcomes(st, key) ==
    IF /\ ~IsHit(st, key)
       /\ key \notin DOMAIN st.cache
       /\ Cardinality(DOMAIN st.cache) >= cache_size
       /\ st.cache_order # <<>>
       /\ st.cache[Head(st.cache_order)] \in st.files
       /\ st.cache[Head(st.cache_order)] # TempPath(key)
    THEN BOOLEAN
    ELSE {TRUE}

\* speak(text), up to the start of playback
Speak(text) ==
    /\ tpc = "idle"
    /\ LET key == remove_special_characters(text)
       IN \E rmOk \in RemoveOutcomes(Now, key) : Enter(Now, key, rmOk, 0)
    /\ UNCHANGED <<variant, cache_size>>

\* speak(text) on a miss whose synthesis raises: the exception leaves speak, the
\* cache is as it was; the provider may have created the file before failing
SpeakSynthesisFails(text) ==
    /\ tpc = "idle"
    /\ LET key == remove_special_characters(text)
       IN /\ ~IsHit(Now, key)
          /\ \E created \in BOOLEAN :
                files' = IF created THEN files \cup {TempPath(key)} ELSE files
          /\ last' = Observed("synth_error", key, TRUE, NoKey)
    /\ UNCHANGED <<variant, cache_size, cache, cache_order, tpc, filtered_text,
                   temp_path, depth, recency, birth, kept, dropped>>

\* speak (and every enclosing speak) is left: its locals are gone
Return ==
    /\ tpc' = "idle"
    /\ filtered_text' = NoKey
    /\ temp_path' = NoPath
    /\ depth' = 0

\* playback ends without an exception: speak returns
PlaybackOk ==
    /\ tpc = "play"
    /\ Return
    /\ last' = [NoOp EXCEPT !.op = "played", !.key = filtered_text, !.after = last.op]
    /\ UNCHANGED <<variant, cache_size, cache, cache_order, files, recency, birth,
                   kept, dropped>>

\* playback raises in tts.py and ai_vtube/text_to_speech.py: invalidate and return
PlaybackFails ==
    /\ tpc = "play"
    /\ variant = "core"
    /\ LET r == Invalidate(Now, filtered_text)
       IN /\ cache' = r.cache
          /\ cache_order' = r.cache_order
          /\ files' = r.files
    /\ recency' = Forget(recency, filtered_text)
    /\ birth' = Forget(birth, filtered_text)
    /\ dropped' = IF filtered_text \in DOMAIN cache THEN dropped \cup {filtered_text}
                  ELSE dropped
    /\ Return
    /\ last' = [NoOp EXCEPT !.op = "play_error"]
    /\ UNCHANGED <<variant, cache_size, kept>>

\* the test before the recursive call, taken to ask whether the key is mapped
\* to another file by now
ShouldRetryIfRemapped(st, key, path) == key \in DOMAIN st.cache /\ st.cache[key] # path

\* temp_path != self.cache.get(text, None), on the cache after the pop
ShouldRetry(st, key, path) ==
    path # (IF key \in DOMAIN st.cache THEN st.cache[key] ELSE NoPath)

\* playback raises in text2speech.py: invalidate; temp_path differs from
\* cache.get(text), which is None by now, so speak(text) is called again
PlaybackFailsRoot ==
    /\ tpc = "play"
    /\ variant = "root"
    /\ IF filtered_text \in DOMAIN cache
       THEN LET r == Invalidate(Now, filtered_text)
            IN /\ cache' = r.cache
               /\ cache_order' = r.cache_order
               /\ files' = r.files
               /\ recency' = Forget(recency, filtered_text)
               /\ birth' = Forget(birth, filtered_text)
               /\ dropped' = dropped \cup {filtered_text}
               /\ IF ShouldRetry(r, filtered_text, temp_path)
                  THEN /\ tpc' = "retry"
                       /\ UNCHANGED <<filtered_text, temp_path, depth>>
                  ELSE Return
       ELSE /\ Return
            /\ UNCHANGED <<cache, cache_order, files, recency, birth, dropped>>
    /\ last' = [NoOp EXCEPT !.op = "play_error"]
    /\ UNCHANGED <<variant, cache_size, kept>>

\* the recursive speak(text) of text2speech.py, up to the start of playback
Retry ==
    /\ tpc = "retry"
    /\ depth < MaxDepth
    /\ LET key == remove_special_characters(filtered_text)
       IN \E rmOk \in RemoveOutcomes(Now, key) : Enter(Now, key, rmOk, depth + 1)
    /\ UNCHANGED <<variant, cache_size>>

\* the synthesis of the recursive speak(text) raises: the exception leaves every
\* enclosing speak
RetrySynthesisFails ==
    /\ tpc = "retry"
    /\ ~IsHit(Now, filtered_text)
    /\ \E created \in BOOLEAN :
          files' = IF created THEN files \cup {TempPath(filtered_text)} ELSE files
    /\ Return
    /\ last' = Observed("synth_error", filtered_text, TRUE, NoKey)
    /\ UNCHANGED <<variant, cache_size, cache, cache_order, recency, birth, kept,
                   dropped>>

\* the recursion of speak reaches the interpreter's recursion limit: RecursionError
\* leaves every enclosing speak
RetryRecursionError ==
    /\ tpc = "retry"
    /\ depth >= MaxDepth
    /\ Return
    /\ last' = [NoOp EXCEPT !.op = "recursion_error"]
    /\ UNCHANGED <<variant, cache_size, cache, cache_order, files, recency, birth,
                   kept, dropped>>

\* a file is removed from disk by something other than the cache; a removal during
\* playback has the effect on the cache of one made right after it
ExternalRemove(p) ==
    /\ tpc # "play"
    /\ p \in files
    /\ files' = files \ {p}
    /\ last' = [NoOp EXCEPT !.op = "removed"]
    /\ UNCHANGED <<variant, cache_size, cache, cache_order, tpc, filtered_text,
                   temp_path, depth, recency, birth, kept, dropped>>

\* cleanup_temp_files: every tts_temp_*.mp3 is removed; an os.remove that fails
\* is skipped, so any subset of the files may survive
CleanupTempFiles ==
    /\ tpc = "idle"
    /\ files # {}
    /\ \E surviving \in (SUBSET files) \ {files} : files' = surviving
    /\ last' = [NoOp EXCEPT !.op = "cleanup"]
    /\ UNCHANGED <<variant, cache_size, cache, cache_order, tpc, filtered_text,
                   temp_path, depth, recency, birth, kept, dropped>>

(***************************************************************************)
(* EventBus.  There are two handlers: a coroutine function (awaited on the *)
(* event loop) and a plain function (run in the thread pool).  A handler's *)
(* failure is an exception that `except Exception` catches.                *)
(***************************************************************************)
EventType == {"new_message", "error"}

Handlers == {"async_handler", "sync_handler"}

\* asyncio.iscoroutinefunction(handler)
IsCoroutineFunction(h) == h = "async_handler"

Payloads == {"hello", "bye"}

Tasks == {"t1"}

Outcomes == {"ok", "exception"}

\* x in list, for strings
Contains(list, h) == \E i \in 1..Len(list) : list[i] = h

\* the handler objects: "sync_handler_twin" is an object other than
\* "sync_handler" that compares equal to it (a second bound method of the same
\* method, an object whose __eq__ says so)
HandlerObjects == Handlers \cup {"sync_handler_twin"}

\* a == b for handler objects
Equals(a, b) == a = b \/ {a, b} = {"sync_handler", "sync_handler_twin"}

\* handler in list: list.__contains__ compares with ==
HandlerIn(list, h) == \E i \in 1..Len(list) : Equals(list[i], h)

\* list.remove(handler): the first element that compares equal goes
RemoveHandler(list, h) ==
    IF HandlerIn(list, h)
    THEN LET i == CHOOSE i \in 1..Len(list) :
                      Equals(list[i], h) /\ \A j \in 1..(i - 1) : ~Equals(list[j], h)
         IN SubSeq(list, 1, i - 1) \o SubSeq(list, i + 1, Len(list))
    ELSE list

NoHandlers == [K \in EventType |-> <<>>]

\* EventBus.on, with on(K, h) appending without the membership test
BusOnAlways(hs, K, h) == [hs EXCEPT ![K] = Append(@, h)]

\* EventBus.on
BusOn(hs, K, h) == IF ~HandlerIn(hs[K], h) THEN [hs EXCEPT ![K] = Append(@, h)] ELSE hs

\* EventBus.off with list.remove not guarded: ValueError when the handler is absent
BusOffUnguarded(hs, K, h) ==
    [handlers |-> [hs EXCEPT ![K] = RemoveHandler(@, h)], raised |-> ~HandlerIn(hs[K], h)]

\* EventBus.off; raised tells whether the call raises
BusOff(hs, K, h) ==
    [handlers |-> IF HandlerIn(hs[K], h) THEN [hs EXCEPT ![K] = RemoveHandler(@, h)] ELSE hs,
     raised |-> FALSE]

\* EventBus.on_any
BusOnAny(w, h) == IF ~HandlerIn(w, h) THEN Append(w, h) ELSE w

\* EventBus.clear that forgets the wildcard list
BusClearSpecificOnly(hs, w) == [handlers |-> NoHandlers, wildcard_handlers |-> w]

\* EventBus.clear
BusClear(hs, w) == [handlers |-> NoHandlers, wildcard_handlers |-> <<>>]

\* the handler list of emit, without the wildcard handlers
CollectSpecificOnly(hs, w, K) == hs[K]

\* the handler list of emit, with the wildcard handlers put first
CollectWildcardFirst(hs, w, K) == w \o hs[K]

\* self._handlers[event_type][:] + self._wildcard_handlers[:]
Collect(hs, w, K) == hs[K] \o w

NoEmit == [pc |-> "idle", kind |-> "none", payload |-> "none", list |-> <<>>,
           started |-> <<>>, ended |-> 0, failedAt |-> 0,
           forKind |-> <<>>, forAny |-> <<>>, afterClear |-> "no", atCall |-> <<>>]

\* one invocation handler(event_type, **data), as the handler receives it
Invocation(h, em) ==
    [handler |-> h, kind |-> em.kind, payload |-> em.payload,
     via |-> IF IsCoroutineFunction(h) THEN "await" ELSE "run_in_executor"]

RECURSIVE TotalLen(_, _)
TotalLen(hs, Ks) ==
    IF Ks = {} THEN 0
    ELSE LET K == CHOOSE K \in Ks : TRUE IN Len(hs[K]) + TotalLen(hs, Ks \ {K})

\* the number of registrations the bus holds
Registrations == TotalLen(handlers, EventType) + Len(wildcard_handlers)

\* the for loop of emit reaches its next handler and invokes it, or ends
Advance(em) ==
    IF Len(em.started) < Len(em.list)
    THEN [em EXCEPT !.pc = "handler",
                    !.started = Append(@, Invocation(em.list[Len(em.started) + 1], em))]
    ELSE [em EXCEPT !.pc = "returned"]

\* the handler being awaited finishes, with emit lacking its try/except
AfterHandlerUncaught(em, outcome) ==
    IF outcome = "exception"
    THEN [em EXCEPT !.pc = "raised", !.ended = @ + 1,
                    !.failedAt = IF @ = 0 THEN em.ended + 1 ELSE @]
    ELSE Advance([em EXCEPT !.ended = @ + 1])

\* the handler being awaited finishes: an exception is caught and logged, and the
\* loop goes on
AfterHandler(em, outcome) ==
    Advance([em EXCEPT !.ended = @ + 1,
                       !.failedAt = IF outcome = "exception" /\ @ = 0
                                    THEN em.ended + 1 ELSE @])

\* an emit call that ended leaves the task; what it did is kept in done
Leave(es, t) == [es EXCEPT ![t] = IF es[t].pc = "handler" THEN es[t] ELSE NoEmit]

\* EventBus.__init__
NewEventBus ==
    /\ clear_pc = "idle"
    /\ pre_clear = [handlers |-> NoHandlers, wildcard_handlers |-> <<>>]
    /\ handlers = NoHandlers
    /\ wildcard_handlers = <<>>
    /\ emits = [t \in Tasks |-> NoEmit]
    /\ done = NoEmit
    /\ cleared = "no"
    /\ called = "none"

\* on(event_type, handler)
On(K, h) ==
    /\ HandlerIn(handlers[K], h) \/ Registrations < MaxRegistrations
    /\ handlers' = BusOn(handlers, K, h)
    /\ cleared' = IF handlers' # handlers THEN "no" ELSE cleared
    /\ called' = IF HandlerIn(handlers[K], h) THEN "on_again" ELSE "on"
    /\ done' = NoEmit
    /\ UNCHANGED <<wildcard_handlers, emits>>

\* off(event_type, handler)
Off(K, h) ==
    /\ LET r == BusOff(handlers, K, h)
       IN /\ handlers' = r.handlers
          /\ called' = IF r.raised THEN "off_raised"
                       ELSE IF HandlerIn(handlers[K], h) THEN "off" ELSE "off_absent"
    /\ done' = NoEmit
    /\ UNCHANGED <<wildcard_handlers, emits, cleared>>

\* on_any(handler)
OnAny(h) ==
    /\ HandlerIn(wildcard_handlers, h) \/ Registrations < MaxRegistrations
    /\ wildcard_handlers' = BusOnAny(wildcard_handlers, h)
    /\ cleared' = IF wildcard_handlers' # wildcard_handlers THEN "no" ELSE cleared
    /\ called' = IF HandlerIn(wildcard_handlers, h) THEN "on_any_again" ELSE "on_any"
    /\ done' = NoEmit
    /\ UNCHANGED <<handlers, emits>>

\* clear(); cleared remembers whether both kinds of registration were dropped
Clear ==
    /\ LET r == BusClear(handlers, wildcard_handlers)
       IN /\ handlers' = r.handlers
          /\ wildcard_handlers' = r.wildcard_handlers
    /\ cleared' = IF handlers # NoHandlers /\ wildcard_handlers # <<>>
                  THEN "dropped" ELSE "empty"
    /\ called' = "clear"
    /\ done' = NoEmit
    /\ UNCHANGED emits

\* task t calls emit(event_type, **data): the handler list is collected and the
\* first handler, if any, is invoked
Emit(t, K, data) ==
    /\ emits[t].pc = "idle"
    /\ LET em == Advance([NoEmit EXCEPT !.kind = K,
                                        !.payload = data,
                                        !.list = Collect(handlers, wildcard_handlers, K),
                                        !.forKind = handlers[K],
                                        !.forAny = wildcard_handlers,
                                        !.afterClear = cleared,
                                        !.atCall = Collect(handlers, wildcard_handlers, K)])
       IN /\ emits' = Leave([emits EXCEPT ![t] = em], t)
          /\ done' = IF em.pc = "handler" THEN NoEmit ELSE em
    /\ called' = "none"
    /\ UNCHANGED <<handlers, wildcard_handlers, cleared>>

\* the handler that task t awaits (a coroutine, or a function in the thread pool)
\* finishes with the given outcome; emit goes on to its next handler or ends
HandlerDone(t, outcome) ==
    /\ emits[t].pc = "handler"
    /\ LET em == AfterHandler(emits[t], outcome)
       IN /\ emits' = Leave([emits EXCEPT ![t] = em], t)
          /\ done' = IF em.pc = "handler" THEN NoEmit ELSE em
    /\ called' = "none"
    /\ UNCHANGED <<handlers, wildcard_handlers, cleared>>

BusStep ==
    \/ \E K \in EventType, h \in Handlers : On(K, h)
    \/ \E K \in EventType, h \in Handlers : Off(K, h)
    \/ \E h \in Handlers : OnAny(h)
    \/ Clear
    \/ \E t \in Tasks, K \in EventType, data \in Payloads : Emit(t, K, data)
    \/ \E t \in Tasks, outcome \in Outcomes : HandlerDone(t, outcome)

(***************************************************************************)
(* The application.  Its texts are sequences of words: a word is one of    *)
(* the error patterns, a denylisted character, or another word ("w" where  *)
(* its identity plays no role).  The fallback messages keep the patterns   *)
(* and the denylisted characters of the strings in the source, in order.   *)
(***************************************************************************)
ERROR_PATTERNS ==
    {"mai_dai_yin", "fang_mai", "kho_thot", "mi_panha", "kho_phit_phlat",
     "long_mai", "long_phut", "ngiap_chang"}

\* any(pattern in user_input for pattern in ERROR_PATTERNS)
IsErrorText(text) == \E pattern \in ERROR_PATTERNS : Contains(text, pattern)

ListenFailures == {"WaitTimeoutError", "UnknownValueError", "RequestError", "Exception"}

\* the messages of each except branch of listen_for_speech
FallbackMessages(failure) ==
    CASE failure = "WaitTimeoutError" ->
            {<<"w", "~", "w", "mai_dai_yin", "w", "long_phut", "w">>,
             <<"w", "fang_mai", "w">>,
             <<"ngiap_chang", "w", "~", "w", "~">>}
      [] failure = "UnknownValueError" ->
            {<<"kho_thot", "w", "~", "w", "fang_mai", "w">>,
             <<"w", "fang_mai", "w">>,
             <<"w", "long_phut", "w">>}
      [] failure = "RequestError" ->
            {<<"w", "mi_panha", "w", "long_mai", "w">>,
             <<"kho_thot", "w", "~", "w", "mi_panha", "w", "long_phut", "w">>,
             <<"w", "long_mai", "w">>}
      [] OTHER ->
            {<<"w", "~", "w", "kho_thot", "w", "kho_phit_phlat", "w", "long_mai", "w">>,
             <<"w", "mi_panha", "w", "long_phut", "w">>,
             <<"w", "mi_panha", "w", "long_mai", "w">>}

\* SpeechToText._random_error: the strings it may return
random_error(messages) == {remove_special_characters(m) : m \in messages}

\* what the user may be heard to say
Transcripts ==
    {<<"hi">>, <<"exit">>, <<"EXIT">>, <<"tell", "me", "a", "long", "story">>,
     <<"w", "kho_thot", "w">>}

\* the number of characters of a word
WordLen(word) == IF word \in {"tell", "long", "story"} THEN 7 ELSE 2

\* len(text)
RECURSIVE CharLen(_)
CharLen(text) == IF text = <<>> THEN 0 ELSE WordLen(Head(text)) + CharLen(Tail(text))

\* str.lower
Lower(text) == [i \in 1..Len(text) |-> IF text[i] = "EXIT" THEN "exit" ELSE text[i]]

ExitWords == {<<"exit">>, <<"quit">>, <<"bye">>, <<"goodbye">>}

\* the exit test without the lowercasing
ShouldExitCaseSensitive(user_input) == user_input \in ExitWords

\* user_input.lower() in ["exit", "quit", "bye", "goodbye"]
ShouldExit(user_input) == Lower(user_input) \in ExitWords

AckThreshold == 20

\* SpeechToText.listen_for_speech: whether it raises, and the strings it may return
ListenForSpeech(failure, heard) ==
    IF failure = "none" THEN [raised |-> FALSE, texts |-> {heard}]
    ELSE [raised |-> FALSE, texts |-> random_error(FallbackMessages(failure))]

\* what the chat provider may answer
ProviderReplies == {<<"w">>, <<"w", "!", "heart">>, <<"kho_thot", "w", "~">>}

\* stands for an exception raised by the provider call
ProviderError == <<"error">>

\* the string of the except branch of chat_with_gemini
Apology(v) ==
    IF v = "root"
    THEN <<"kho_thot", "w", "mi_panha", "w", "long_mai", "w", "?">>
    ELSE <<"kho_thot", "w", "mi_panha", "w", "long_mai", "w">>

\* Chatbot.chat_with_gemini whose except branch starts a new chat session
ChatWithGeminiRestarts(v, session, answer) ==
    IF answer = ProviderError
    THEN [raised |-> FALSE, text |-> Apology(v), chat |-> "restarted"]
    ELSE [raised |-> FALSE, text |-> remove_special_characters(answer), chat |-> session]

\* Chatbot.chat_with_gemini on the session self.chat; answer is the provider's reply
\* or ProviderError when the provider call raises
ChatWithGemini(v, session, answer) ==
    IF answer = ProviderError
    THEN [raised |-> FALSE, text |-> Apology(v), chat |-> session]
    ELSE [raised |-> FALSE, text |-> remove_special_characters(answer), chat |-> session]

KeyValues == {"unset", "", "key"}

\* the truth value of an optional string
Truthy(k) == k \notin {"unset", ""}

\* Chatbot.__init__ that configures the provider before it tests the key
NewChatbotConfiguresFirst(api_key, env) ==
    LET key == IF Truthy(api_key) THEN api_key ELSE env
    IN [raised |-> ~Truthy(key),
        error |-> IF Truthy(key) THEN "none"
                  ELSE "ValueError: GEMINI_API_KEY environment variable not set",
        configured |-> TRUE,
        chat |-> IF Truthy(key) THEN "session" ELSE "none"]

\* Chatbot.__init__: api_key or os.getenv("GEMINI_API_KEY")
NewChatbot(api_key, env) ==
    LET key == IF Truthy(api_key) THEN api_key ELSE env
    IN IF ~Truthy(key)
       THEN [raised |-> TRUE,
             error |-> "ValueError: GEMINI_API_KEY environment variable not set",
             configured |-> FALSE, chat |-> "none"]
       ELSE [raised |-> FALSE, error |-> "none", configured |-> TRUE, chat |-> "session"]

\* the turn that has not called anything yet
NoTurn ==
    [stt |-> 0, chat |-> 0, speak |-> 0, failure |-> "none", user_input |-> <<>>,
     is_error |-> FALSE, reply |-> <<>>, reply_failed |-> FALSE, said |-> <<>>,
     caught |-> FALSE]

\* a call is begun without waiting for the calls in flight
BeginUnawaited(fl, call) == fl \cup {call}

\* a call is begun: every call before it was awaited
Begin(fl, call) == {call}

\* the process before main is entered
NewProcess ==
    /\ env_key = "unset"
    /\ apc = "main"
    /\ configured = FALSE
    /\ chat = "none"
    /\ turn = NoTurn
    /\ inflight = {}
    /\ ended_by = "none"
    /\ exit_status = -1

\* the process ends
Exit(status, why) ==
    /\ apc' = "exited"
    /\ exit_status' = status
    /\ ended_by' = why
    /\ inflight' = {}

\* self.text_to_speech.speak(text) is called from position at
BeginSpeak(at, text, t) ==
    /\ apc' = at
    /\ inflight' = Begin(inflight, "speak")
    /\ turn' = [t EXCEPT !.said = text,
                         !.speak = IF at \in {"fallback", "ack", "respond"}
                                   THEN @ + 1 ELSE @]

\* main without the credential: SystemExit(1) before AIVtuber is constructed
MainNoKey ==
    /\ apc = "main"
    /\ ~Truthy(env_key)
    /\ Exit(1, "no_key")
    /\ UNCHANGED <<env_key, configured, chat, turn>>

\* main with the credential: AIVtuber(), then run speaks its welcome
MainStart ==
    /\ apc = "main"
    /\ Truthy(env_key)
    /\ LET c == NewChatbot("unset", env_key)
       IN /\ ~c.raised
          /\ configured' = c.configured
          /\ chat' = c.chat
    /\ BeginSpeak("welcome", <<"w">>, NoTurn)
    /\ UNCHANGED <<env_key, ended_by, exit_status>>

\* Chatbot(api_key) constructed outside main (the module's own entry point, a
\* test): a ValueError ends the process
ConstructChatbot(api_key) ==
    /\ apc = "main"
    /\ api_key = "unset" \/ variant = "core"
    /\ LET c == NewChatbot(api_key, env_key)
       IN /\ configured' = c.configured
          /\ chat' = c.chat
          /\ IF c.raised
             THEN Exit(1, c.error)
             ELSE /\ apc' = "chatbot_ready"
                  /\ UNCHANGED <<inflight, ended_by, exit_status>>
    /\ UNCHANGED <<env_key, turn>>

\* error_msg, spoken by the except Exception branch of the loop of run
HandlerMessage == <<"w", "kho_thot", "w", "long_mai", "w">>

\* goodbye, one of goodbye_messages after remove_special_characters
GoodbyeMessage == remove_special_characters(<<"w", "~", "w">>)

Speaking == {"welcome", "fallback", "ack", "respond", "handler", "goodbye"}

\* the while loop of run reaches listen_and_respond, which calls listen_for_speech
BeginTurn ==
    /\ apc = "loop"
    /\ apc' = "stt"
    /\ turn' = [NoTurn EXCEPT !.stt = 1]
    /\ inflight' = Begin(inflight, "stt")
    /\ UNCHANGED <<env_key, configured, chat, ended_by, exit_status>>

\* chat_with_gemini(user_input) is called
BeginChat(t) ==
    /\ apc' = "chat"
    /\ inflight' = Begin(inflight, "chat")
    /\ turn' = [t EXCEPT !.chat = @ + 1]

\* listen_for_speech returns user_input; the turn classifies it and speaks the
\* fallback, speaks an acknowledgment, or calls the chat provider
ListenReturns(failure, heard) ==
    /\ apc = "stt"
    /\ LET r == ListenForSpeech(failure, heard)
       IN IF r.raised
          THEN BeginSpeak("handler", HandlerMessage,
                          [turn EXCEPT !.failure = failure, !.caught = TRUE])
          ELSE \E user_input \in r.texts :
                LET t == [turn EXCEPT !.failure = failure,
                                      !.user_input = user_input,
                                      !.is_error = IsErrorText(user_input)]
                IN IF t.is_error
                   THEN BeginSpeak("fallback", user_input, t)
                   ELSE IF CharLen(user_input) > AckThreshold
                        THEN BeginSpeak("ack", <<"w", "~">>, t)
                        ELSE BeginChat(t)
    /\ UNCHANGED <<env_key, configured, chat, ended_by, exit_status>>

\* chat_with_gemini returns; the response is spoken
ChatReturns(answer) ==
    /\ apc = "chat"
    /\ LET r == ChatWithGemini(variant, chat, answer)
           t == [turn EXCEPT !.reply_failed = answer = ProviderError]
       IN /\ chat' = r.chat
          /\ IF r.raised
             THEN BeginSpeak("handler", HandlerMessage, [t EXCEPT !.caught = TRUE])
             ELSE BeginSpeak("respond", r.text, [t EXCEPT !.reply = r.text])
    /\ UNCHANGED <<env_key, configured, ended_by, exit_status>>

\* speak returns (a playback failure is handled inside speak)
SpeakReturns ==
    /\ apc \in Speaking
    /\ CASE apc = "ack" -> BeginChat(turn) /\ UNCHANGED <<ended_by, exit_status>>
         [] apc = "respond" /\ ShouldExit(turn.user_input) ->
               /\ BeginSpeak("goodbye", GoodbyeMessage, turn)
               /\ ended_by' = "exit_keyword"
               /\ UNCHANGED exit_status
         [] apc = "goodbye" ->
               /\ apc' = "cleanup"
               /\ inflight' = {}
               /\ UNCHANGED <<turn, ended_by, exit_status>>
         [] OTHER ->
               /\ apc' = "loop"
               /\ inflight' = {}
               /\ UNCHANGED <<turn, ended_by, exit_status>>
    /\ UNCHANGED <<env_key, configured, chat>>

\* speak raises (its synthesis failed): inside a turn the except branch of run
\* speaks the error message; anywhere else in run nothing catches it
SpeakRaises ==
    /\ apc \in Speaking
    /\ IF apc \in {"fallback", "ack", "respond"}
       THEN /\ BeginSpeak("handler", HandlerMessage, [turn EXCEPT !.caught = TRUE])
            /\ UNCHANGED <<ended_by, exit_status>>
       ELSE /\ Exit(1, IF apc = "handler" THEN "exception"
                       ELSE IF apc = "welcome" THEN "welcome_failed" ELSE ended_by)
            /\ UNCHANGED turn
    /\ UNCHANGED <<env_key, configured, chat>>

\* the last statement of run, self.cleanup(); run returns and the process ends
RunCleanup ==
    /\ apc = "cleanup"
    /\ Exit(0, ended_by)
    /\ UNCHANGED <<env_key, configured, chat, turn>>

\* the user interrupts the process during the turn loop
KeyboardInterrupt ==
    /\ apc \in {"loop", "stt", "chat", "fallback", "ack", "respond", "handler"}
    /\ Exit(0, "interrupt")
    /\ UNCHANGED <<env_key, configured, chat, turn>>

AppStep ==
    \/ MainNoKey
    \/ MainStart
    \/ \E api_key \in KeyValues : ConstructChatbot(api_key)
    \/ BeginTurn
    \/ \E heard \in Transcripts : ListenReturns("none", heard)
    \/ \E failure \in ListenFailures : ListenReturns(failure, <<>>)
    \/ \E answer \in ProviderReplies \cup {ProviderError} : ChatReturns(answer)
    \/ SpeakReturns
    \/ SpeakRaises
    \/ RunCleanup
    \/ KeyboardInterrupt

\* TextToSpeech.__init__
\* threads other than the event loop's
Threads == {"w1", "w2"}

NoCall == [pc |-> "idle", op |-> "none", kind |-> "none", handler |-> "none",
           found |-> FALSE, n |-> 0]

\* no thread is inside a call
NoThreadCall == calls = [th \in Threads |-> NoCall]

\* the tasks that call emit
Emitters == {"t1", "t2"}

\* no handler runs
NoPool ==
    /\ inv_state = [t \in Emitters |-> "none"]
    /\ unawaited = {}
    /\ subscribing = TRUE
    /\ during = [t \in Emitters |-> "no"]
    /\ earlier = [t \in Emitters |-> FALSE]

\* no call of remove_special_characters is being followed
NoSanitizerCall ==
    /\ raw_text = <<>>
    /\ clean_text = <<>>
    /\ clean_twice = <<>>
    /\ spc = "idle"

NewTextToSpeech ==
    /\ cache = EmptyMap
    /\ cache_order = <<>>
    /\ files = {}
    /\ tpc = "idle"
    /\ filtered_text = NoKey
    /\ temp_path = NoPath
    /\ depth = 0
    /\ recency = <<>>
    /\ birth = <<>>
    /\ kept = {}
    /\ dropped = {}
    /\ last = NoOp

InitTTS ==
    /\ variant \in Variants
    /\ cache_size \in 1..MaxCacheSize
    /\ NewTextToSpeech
    /\ NewEventBus
    /\ NewProcess
    /\ NoSanitizerCall
    /\ NoPool
    /\ NoThreadCall

TTSStep ==
    \/ \E text \in Texts : Speak(text)
    \/ \E text \in Texts : SpeakSynthesisFails(text)
    \/ PlaybackOk
    \/ PlaybackFails
    \/ PlaybackFailsRoot
    \/ Retry
    \/ RetrySynthesisFails
    \/ RetryRecursionError
    \/ \E p \in Paths : ExternalRemove(p)
    \/ CleanupTempFiles

NextTTS == TTSStep /\ UNCHANGED <<busVars, raceVars, appVars, textVars, poolVars, threadVars>>

SpecTTS == InitTTS /\ [][NextTTS]_vars

\* the component alone: nothing outside TextToSpeech removes a file
TTSOwnStep ==
    \/ \E text \in Texts : Speak(text)
    \/ \E text \in Texts : SpeakSynthesisFails(text)
    \/ PlaybackOk
    \/ PlaybackFails
    \/ PlaybackFailsRoot
    \/ Retry
    \/ RetrySynthesisFails
    \/ RetryRecursionError
    \/ CleanupTempFiles

NextTTSOwn == TTSOwnStep /\ UNCHANGED <<busVars, raceVars, appVars, textVars, poolVars, threadVars>>

SpecTTSOwn == InitTTS /\ [][NextTTSOwn]_vars

InitBus ==
    /\ variant = "core"
    /\ cache_size = 1
    /\ NewTextToSpeech
    /\ NewEventBus
    /\ NewProcess
    /\ NoSanitizerCall
    /\ NoPool
    /\ NoThreadCall

NextBus == BusStep /\ UNCHANGED <<ttsVars, raceVars, appVars, textVars, poolVars, threadVars>>

SpecBus == InitBus /\ [][NextBus]_vars

(***************************************************************************)
(* clear() called from another thread (a sync handler in the worker pool,  *)
(* or any thread of the application) while the event loop runs emit.  The  *)
(* bus takes no lock: the interpreter may switch threads between the two   *)
(* statements of clear and between the two list reads of emit's snapshot.  *)
(***************************************************************************)
Quiet == \A t \in Tasks : emits[t].pc = "idle"

\* subscriptions made on the event loop before any emit and before the clear()
SetupOn(K, h) == clear_pc = "idle" /\ Quiet /\ done = NoEmit /\ On(K, h)

SetupOnAny(h) == clear_pc = "idle" /\ Quiet /\ done = NoEmit /\ OnAny(h)

\* the other thread executes self._handlers.clear()
ClearHandlers ==
    /\ clear_pc = "idle"
    /\ clear_pc' = "handlers_cleared"
    /\ pre_clear' = [handlers |-> handlers, wildcard_handlers |-> wildcard_handlers]
    /\ handlers' = NoHandlers
    /\ UNCHANGED <<wildcard_handlers, emits, done, cleared, called>>

\* the other thread executes self._wildcard_handlers.clear() and returns
ClearWildcardHandlers ==
    /\ clear_pc = "handlers_cleared"
    /\ clear_pc' = "returned"
    /\ wildcard_handlers' = <<>>
    /\ cleared' = "empty"
    /\ UNCHANGED <<handlers, emits, done, called, pre_clear>>

\* emit evaluates the left operand of its snapshot: self._handlers[event_type][:]
EmitReadHandlers(t, K, data) ==
    /\ emits[t].pc = "idle"
    /\ emits' = [emits EXCEPT ![t] = [NoEmit EXCEPT !.pc = "collect",
                                                    !.kind = K,
                                                    !.payload = data,
                                                    !.forKind = handlers[K],
                                                    !.atCall = Collect(handlers,
                                                                       wildcard_handlers, K)]]
    /\ done' = NoEmit
    /\ called' = "none"
    /\ UNCHANGED <<handlers, wildcard_handlers, cleared, raceVars>>

\* emit evaluates the right operand, self._wildcard_handlers[:], concatenates, and
\* invokes the first handler, if any
EmitReadWildcardHandlers(t) ==
    /\ emits[t].pc = "collect"
    /\ LET em == Advance([emits[t] EXCEPT !.pc = "idle",
                                          !.forAny = wildcard_handlers,
                                          !.list = emits[t].forKind \o wildcard_handlers])
       IN /\ emits' = Leave([emits EXCEPT ![t] = em], t)
          /\ done' = IF em.pc = "handler" THEN NoEmit ELSE em
    /\ UNCHANGED <<handlers, wildcard_handlers, cleared, called, raceVars>>

RaceStep ==
    \/ \E K \in EventType, h \in Handlers : SetupOn(K, h) /\ UNCHANGED raceVars
    \/ \E h \in Handlers : SetupOnAny(h) /\ UNCHANGED raceVars
    \/ ClearHandlers
    \/ ClearWildcardHandlers
    \/ \E t \in Tasks, K \in EventType, data \in Payloads : EmitReadHandlers(t, K, data)
    \/ \E t \in Tasks : EmitReadWildcardHandlers(t)
    \/ \E t \in Tasks, outcome \in Outcomes : HandlerDone(t, outcome) /\ UNCHANGED raceVars

InitBusRace == InitBus

NextBusRace == RaceStep /\ UNCHANGED <<ttsVars, appVars, textVars, poolVars, threadVars>>

SpecBusRace == InitBusRace /\ [][NextBusRace]_vars

(***************************************************************************)
(* Two tasks of the event loop emit on one bus.  A coroutine handler runs  *)
(* on the event loop and gives it up while it waits; a plain function runs *)
(* in a thread of the pool and keeps that thread until it returns.  The    *)
(* end of a handler and the resumption of the emit that awaits it are two  *)
(* steps.                                                                  *)
(***************************************************************************)
\* the invocation the emit call em has made last
Current(em) == em.started[Len(em.started)]

\* the thread a running invocation keeps busy, with the plain function called
\* by emit itself
BlockedThreadInline(inv) == IF inv.via = "run_in_executor" THEN "loop" ELSE "none"

\* the thread a running invocation keeps busy: run_in_executor hands the plain
\* function to self._executor
BlockedThread(inv) == IF inv.via = "run_in_executor" THEN "worker" ELSE "none"

\* task t has a plain function running in the pool
SyncRunning(t) ==
    /\ emits[t].pc = "handler"
    /\ inv_state[t] = "running"
    /\ Current(emits[t]).via = "run_in_executor"

\* the event loop can run a step of a task
LoopFree ==
    \A t \in Emitters :
        emits[t].pc = "handler" /\ inv_state[t] = "running"
            => BlockedThread(Current(emits[t])) # "loop"

\* whether emit goes on after an invocation in the given state, with the future
\* of run_in_executor left unawaited
MayResumeUnawaited(inv, state) == state # "running" \/ inv.via = "run_in_executor"

\* whether emit goes on after an invocation in the given state: both branches
\* await the handler
MayResume(inv, state) == state # "running"

\* on(event_type, handler) before the first emit
PoolOn(K, h) ==
    /\ subscribing
    /\ ~Contains(handlers[K], h)
    /\ Registrations < MaxPoolRegistrations
    /\ On(K, h)
    /\ UNCHANGED poolVars

\* on_any(handler) before the first emit
PoolOnAny(h) ==
    /\ subscribing
    /\ ~Contains(wildcard_handlers, h)
    /\ Registrations < MaxPoolRegistrations
    /\ OnAny(h)
    /\ UNCHANGED poolVars

\* task t calls emit and awaits its first handler, if there is one
PoolEmit(t, K, data) ==
    /\ LoopFree
    /\ Emit(t, K, data)
    /\ inv_state' = [inv_state EXCEPT ![t] = IF emits'[t].pc = "handler"
                                             THEN "running" ELSE "none"]
    /\ unawaited' = {[u EXCEPT !.earlier = @ \/ u.task = t] : u \in unawaited}
    /\ subscribing' = FALSE
    /\ during' = [during EXCEPT ![t] =
                      IF emits'[t].pc = "handler"
                         /\ \E o \in Emitters \ {t} : SyncRunning(o)
                      THEN "called" ELSE "no"]
    /\ UNCHANGED earlier

\* the handler that the emit of task t awaits ends: a coroutine on the event
\* loop, a plain function in its pool thread
HandlerEnds(t, outcome) ==
    /\ emits[t].pc = "handler"
    /\ inv_state[t] = "running"
    /\ Current(emits[t]).via = "await" => LoopFree
    /\ inv_state' = [inv_state EXCEPT ![t] = outcome]
    /\ during' = [o \in Emitters |-> IF o # t /\ SyncRunning(t) THEN "no" ELSE during[o]]
    /\ UNCHANGED <<busVars, unawaited, subscribing, earlier>>

\* the event loop resumes the emit of task t after its await: the next handler
\* is invoked, or emit returns
EmitResumes(t) ==
    /\ LoopFree
    /\ emits[t].pc = "handler"
    /\ MayResume(Current(emits[t]), inv_state[t])
    /\ HandlerDone(t, IF inv_state[t] = "exception" THEN "exception" ELSE "ok")
    /\ inv_state' = [inv_state EXCEPT ![t] = IF emits'[t].pc = "handler"
                                             THEN "running" ELSE "none"]
    /\ unawaited' = IF inv_state[t] = "running"
                    THEN unawaited \cup {[task |-> t,
                                          handler |-> Current(emits[t]).handler,
                                          earlier |-> FALSE]}
                    ELSE unawaited
    /\ during' = [during EXCEPT ![t] = IF @ = "called" /\ emits'[t].pc = "idle"
                                       THEN "returned" ELSE @]
    /\ earlier' = [earlier EXCEPT ![t] = @ \/ emits'[t].pc = "idle"]
    /\ UNCHANGED subscribing

PoolStep ==
    \/ \E h \in Handlers : PoolOn("new_message", h)
    \/ \E h \in Handlers : PoolOnAny(h)
    \/ \E t \in Emitters : PoolEmit(t, "new_message", "hello")
    \/ \E t \in Emitters, outcome \in Outcomes : HandlerEnds(t, outcome)
    \/ \E t \in Emitters : EmitResumes(t)

InitBusPool ==
    /\ variant = "core"
    /\ cache_size = 1
    /\ NewTextToSpeech
    /\ NewProcess
    /\ NoSanitizerCall
    /\ NoPool
    /\ NoThreadCall
    /\ clear_pc = "idle"
    /\ pre_clear = [handlers |-> NoHandlers, wildcard_handlers |-> <<>>]
    /\ handlers = NoHandlers
    /\ wildcard_handlers = <<>>
    /\ emits = [t \in Emitters |-> NoEmit]
    /\ done = NoEmit
    /\ cleared = "no"
    /\ called = "none"

NextBusPool == PoolStep /\ UNCHANGED <<ttsVars, raceVars, appVars, textVars, threadVars>>

SpecBusPool == InitBusPool /\ [][NextBusPool]_vars

(***************************************************************************)
(* on and off called from two threads.  Each is a membership test followed *)
(* by a list operation, with no lock around them: the interpreter may run  *)
(* the other thread between the two.                                       *)
(***************************************************************************)
\* thread th enters on or off and evaluates `handler in self._handlers[event_type]`
TestMembership(th, op, K, h) ==
    /\ calls[th].pc \in {"idle", "returned"}
    /\ calls[th].n < MaxThreadCalls
    /\ calls' = [calls EXCEPT ![th] = [pc |-> "tested", op |-> op, kind |-> K,
                                       handler |-> h,
                                       found |-> HandlerIn(handlers[K], h),
                                       n |-> calls[th].n + 1]]
    /\ UNCHANGED <<handlers, wildcard_handlers, emits, done, cleared, called>>

\* thread th, in on, executes `self._handlers[event_type].append(handler)` when
\* its test found no equal handler, and returns
OnAppend(th) ==
    /\ calls[th].pc = "tested" /\ calls[th].op = "on"
    /\ handlers' = IF calls[th].found THEN handlers
                   ELSE [handlers EXCEPT ![calls[th].kind] = Append(@, calls[th].handler)]
    /\ calls' = [calls EXCEPT ![th].pc = "returned"]
    /\ UNCHANGED <<wildcard_handlers, emits, done, cleared, called>>

\* thread th, in off, executes `self._handlers[event_type].remove(handler)` when
\* its test found an equal handler: list.remove raises ValueError when there is
\* none any more
OffRemove(th) ==
    /\ calls[th].pc = "tested" /\ calls[th].op = "off"
    /\ handlers' = IF calls[th].found
                   THEN [handlers EXCEPT ![calls[th].kind] = RemoveHandler(@, calls[th].handler)]
                   ELSE handlers
    /\ calls' = [calls EXCEPT ![th].pc =
                    IF calls[th].found /\ ~HandlerIn(handlers[calls[th].kind], calls[th].handler)
                    THEN "raised" ELSE "returned"]
    /\ UNCHANGED <<wildcard_handlers, emits, done, cleared, called>>

ThreadStep ==
    \/ \E th \in Threads, K \in EventType, h \in Handlers : TestMembership(th, "on", K, h)
    \/ \E th \in Threads, K \in EventType, h \in Handlers : TestMembership(th, "off", K, h)
    \/ \E th \in Threads : OnAppend(th)
    \/ \E th \in Threads : OffRemove(th)

InitBusThreads == InitBus

NextBusThreads == ThreadStep /\ UNCHANGED <<ttsVars, raceVars, appVars, textVars, poolVars>>

SpecBusThreads == InitBusThreads /\ [][NextBusThreads]_vars

(***************************************************************************)
(* The bus called with handler objects of which two are distinct objects   *)
(* that compare equal (two bound methods obj.handle of one object, or      *)
(* objects with __eq__): on and off test `handler in list` and call        *)
(* list.remove(handler), which go by ==.                                   *)
(***************************************************************************)
ObjectStep ==
    \/ \E K \in EventType, h \in HandlerObjects : On(K, h)
    \/ \E K \in EventType, h \in HandlerObjects : Off(K, h)
    \/ \E h \in HandlerObjects : OnAny(h)

InitBusObjects == InitBus

NextBusObjects ==
    ObjectStep /\ UNCHANGED <<ttsVars, raceVars, appVars, textVars, poolVars, threadVars>>

SpecBusObjects == InitBusObjects /\ [][NextBusObjects]_vars

(***************************************************************************)
(* The application process, from main to its exit.                         *)
(***************************************************************************)
InitApp ==
    /\ variant \in Variants
    /\ cache_size = 1
    /\ NewTextToSpeech
    /\ NewEventBus
    /\ env_key \in KeyValues
    /\ apc = "main"
    /\ configured = FALSE
    /\ chat = "none"
    /\ turn = NoTurn
    /\ inflight = {}
    /\ ended_by = "none"
    /\ exit_status = -1
    /\ NoSanitizerCall
    /\ NoPool
    /\ NoThreadCall

NextApp == AppStep /\ UNCHANGED <<ttsVars, busVars, raceVars, textVars, poolVars, threadVars>>

SpecApp == InitApp /\ [][NextApp]_vars

(***************************************************************************)
(* remove_special_characters on the strings of a small character set.      *)
(***************************************************************************)
InitText ==
    /\ variant = "core"
    /\ cache_size = 1
    /\ NewTextToSpeech
    /\ NewEventBus
    /\ NewProcess
    /\ raw_text \in RawTexts
    /\ clean_text = <<>>
    /\ clean_twice = <<>>
    /\ spc = "input"
    /\ NoPool
    /\ NoThreadCall

\* filtered_text = remove_special_characters(text)
SanitizeOnce ==
    /\ spc = "input"
    /\ clean_text' = remove_special_characters(raw_text)
    /\ spc' = "once"
    /\ UNCHANGED <<raw_text, clean_twice>>

\* the result is passed through remove_special_characters again, as speak does
\* with the text chat_with_gemini has already filtered
SanitizeAgain ==
    /\ spc = "once"
    /\ clean_twice' = remove_special_characters(clean_text)
    /\ spc' = "twice"
    /\ UNCHANGED <<raw_text, clean_text>>

TextStep == SanitizeOnce \/ SanitizeAgain

NextText == TextStep /\ UNCHANGED <<ttsVars, busVars, raceVars, appVars, poolVars, threadVars>>

SpecText == InitText /\ [][NextText]_vars

(***************************************************************************)
(* Properties of the audio cache.                                          *)
(***************************************************************************)

\* C1: whenever an insertion has completed, the cache holds at most cache_size
\* entries, for every positive cache_size and every sequence of speak calls.
C1_CacheBounded == Cardinality(DOMAIN cache) <= cache_size

\* an insertion at capacity has just evicted an entry and the cache is full
C1_Witness ==
    /\ last.op = "miss"
    /\ last.evicted # NoKey
    /\ Cardinality(DOMAIN cache) = cache_size

\* C2: an insertion that evicts removes exactly one entry, the one whose last
\* touch (insertion or hit) is the oldest among the entries present.
C2_EvictsLeastRecentlyTouched ==
    [][last'.evicted # NoKey =>
          /\ last'.evicted \in DOMAIN cache
          /\ Range(recency) = DOMAIN cache
          /\ last'.evicted = Head(recency)
          /\ DOMAIN cache' = ((DOMAIN cache) \ {last'.evicted}) \cup {last'.key}]_vars

\* an entry was evicted although an entry inserted before it is still cached: a
\* hit had moved the older entry behind it
C2_Witness ==
    /\ last.evicted # NoKey
    /\ last.firstBorn # last.evicted
    /\ last.firstBorn \in DOMAIN cache

\* C3 as stated: a speak whose key was inserted and not evicted since, and whose
\* file exists, does not synthesize.
C3_AsStated ==
    [][last'.synth => ~(last'.key \in kept /\ TempPath(last'.key) \in files)]_vars

\* C3: a speak whose key was inserted and since then neither evicted nor
\* invalidated by a playback failure, and whose file exists, does not synthesize.
C3_NoSynthesisOnLiveKey ==
    [][last'.synth =>
          ~(last'.key \in kept \ dropped /\ TempPath(last'.key) \in files)]_vars

\* a speak has just been served from the cache, for a key inserted by an earlier call
C3_Witness ==
    /\ last.op = "hit"
    /\ ~last.synth
    /\ last.key \in kept \ dropped
    /\ TempPath(last.key) \in files

\* C12 as stated: with nothing outside the component removing files, whenever no
\* speak call is in progress every key of the cache maps to a file that exists,
\* also when two texts share a file name.
C12_CachedFilesExist ==
    tpc = "idle" => \A k \in DOMAIN cache : cache[k] \in files

\* C13: a playback failure inside speak(text) removes the entry of text from the
\* mapping and from the recency order and nothing else: no file is deleted and
\* the other entries keep their paths and their order; in tts.py and
\* text_to_speech.py speak then returns; and until it is inserted again a speak of
\* that text synthesizes.
C13_PlaybackFailureInvalidatesOne ==
    [][/\ last'.op = "play_error" =>
             /\ DOMAIN cache' = (DOMAIN cache) \ {filtered_text}
             /\ \A k \in DOMAIN cache' : cache'[k] = cache[k]
             /\ cache_order' = SelectSeq(cache_order, LAMBDA k : k # filtered_text)
             /\ files' = files
             /\ variant = "core" => tpc' = "idle"
       /\ last'.op \in {"hit", "miss", "retry"} /\ last'.key \in dropped => last'.synth]_vars

\* a playback failure has just dropped an entry whose file is still on disk, and
\* another entry is still cached
C13_Witness ==
    /\ last.op = "play_error"
    /\ variant = "core"
    /\ tpc = "idle"
    /\ DOMAIN cache # {}
    /\ \E k \in dropped : k \notin DOMAIN cache /\ TempPath(k) \in files

\* C14: when speak is called for a key that is in the cache while its file is
\* not on disk, the call is a miss: the text is synthesized again, the key is
\* mapped to the new file and is last in cache_order, no entry is evicted,
\* every other entry keeps its file and the number of entries is unchanged.
C14_StaleEntryIsResynthesized ==
    [][(/\ last'.op \in {"hit", "miss", "retry"}
        /\ last'.key \in DOMAIN cache
        /\ cache[last'.key] \notin files)
       => /\ last'.synth
          /\ last'.evicted = NoKey
          /\ DOMAIN cache' = DOMAIN cache
          /\ cache'[last'.key] = TempPath(last'.key)
          /\ TempPath(last'.key) \in files'
          /\ \A k \in (DOMAIN cache) \ {last'.key} : cache'[k] = cache[k]
          /\ cache_order' # <<>>
          /\ cache_order'[Len(cache_order')] = last'.key
          /\ Len(cache_order') = Len(cache_order)]_vars

\* a miss in a full cache for a key that was already there: the key is the
\* most recently used one without being the youngest entry, and nothing was evicted
C14_Witness ==
    /\ last.op = "miss" /\ last.synth /\ last.evicted = NoKey
    /\ Cardinality(DOMAIN cache) = cache_size /\ cache_size > 1
    /\ birth # <<>> /\ birth[Len(birth)] # last.key
    /\ cache_order[Len(cache_order)] = last.key
    /\ cache[last.key] = TempPath(last.key) /\ TempPath(last.key) \in files

\* C24: in text2speech.py a playback failure never ends speak: the entry is
\* invalidated and speak is called again on the same text, one level deeper,
\* whatever the depth; a speak call ends only by a playback that succeeds or by
\* an exception (a synthesis that fails, the interpreter's recursion limit).
C24_RootRetriesWithoutBound ==
    [][variant = "root" =>
          /\ tpc = "play" /\ last'.op = "play_error" =>
                /\ tpc' = "retry"
                /\ depth' = depth /\ filtered_text' = filtered_text
                /\ filtered_text \notin DOMAIN cache'
          /\ tpc = "retry" /\ tpc' # "retry" =>
                \/ /\ tpc' = "play" /\ depth' = depth + 1
                   /\ filtered_text' = filtered_text
                   /\ last'.op = "retry" /\ last'.synth
                \/ /\ tpc' = "idle"
                   /\ last'.op \in {"synth_error", "recursion_error"}
          /\ tpc # "idle" /\ tpc' = "idle" =>
                last'.op \in {"played", "synth_error", "recursion_error"}]_vars

\* playback has failed on every attempt and speak has ended in RecursionError
C24_Witness ==
    /\ variant = "root"
    /\ tpc = "idle"
    /\ last.op = "recursion_error"

\* the step is a speak call that evicted an entry
Evicting == last'.op \in {"miss", "retry"} /\ last'.evicted # NoKey

C26_HitOnlyTouchesOrder ==
    [][/\ last'.op = "hit" =>
             /\ cache' = cache
             /\ files' = files
             /\ last'.evicted = NoKey /\ ~last'.synth
             /\ temp_path' = cache[last'.key]
             /\ Len(cache_order') = Len(cache_order)
             /\ cache_order'[Len(cache_order')] = last'.key
             /\ SelectSeq(cache_order', LAMBDA k : k # last'.key)
                   = SelectSeq(cache_order, LAMBDA k : k # last'.key)
       /\ last'.op = "played" =>
             /\ cache' = cache
             /\ files' = files
             /\ cache_order' = cache_order]_vars

\* a hit in a full cache on a key that was not the most recently used one has
\* been played
C26_Witness ==
    /\ last.op = "played" /\ last.after = "hit"
    /\ tpc = "idle"
    /\ cache_size > 1 /\ Cardinality(DOMAIN cache) = cache_size
    /\ cache_order[Len(cache_order)] = last.key
    /\ birth[Len(birth)] # last.key
    /\ \A k \in DOMAIN cache : cache[k] \in files

\* C30: whenever no speak call is in progress, cache_order holds the keys of the
\* cache mapping and no others, each of them once, whatever the calls before did
\* (hit, miss, eviction, re-insertion after a lost file, playback failure).
C30_OrderListsTheCacheKeys ==
    tpc = "idle" =>
        /\ Range(cache_order) = DOMAIN cache
        /\ Len(cache_order) = Cardinality(DOMAIN cache)

\* a playback failure has dropped one of the two entries of a cache; the other
\* one is what the mapping and the recency list hold
C30_Witness ==
    /\ tpc = "idle" /\ last.op = "play_error"
    /\ cache_size = 2
    /\ Len(cache_order) = 1 /\ DOMAIN cache = {cache_order[1]}
    /\ Len(birth) = 1
    /\ dropped # {}

(***************************************************************************)
(* Properties of the event bus.                                            *)
(***************************************************************************)
\* the emit calls to look at: those in progress and the one that has just ended
Emissions == {emits[t] : t \in Tasks} \cup {done}

\* how many times the emission em has invoked handler h
Invoked(em, h) == Cardinality({i \in 1..Len(em.started) : em.started[i].handler = h})

Registered(list, h) == IF Contains(list, h) THEN 1 ELSE 0

NoDuplicate(list) == \A i, j \in 1..Len(list) : list[i] = list[j] => i = j

\* C4: an exception raised by a handler, async or sync, never leaves emit, and
\* the handlers after the failing one are still invoked: an emit that ends has
\* returned and has invoked its whole handler list.
C4_HandlerErrorIsolated ==
    \A em \in Emissions :
        /\ em.pc # "raised"
        /\ em.pc = "returned" => Len(em.started) = Len(em.list) /\ em.ended = Len(em.list)
        /\ em.pc = "handler" /\ em.failedAt > 0 => Len(em.started) > em.failedAt

\* an emit has returned after a handler that was not its last one had raised
C4_Witness ==
    /\ done.pc = "returned"
    /\ done.failedAt > 0
    /\ done.failedAt < Len(done.list)
    /\ Len(done.started) = Len(done.list)
    /\ \E i, j \in 1..Len(done.started) :
          done.started[i].via = "await" /\ done.started[j].via = "run_in_executor"

\* C5: on(K, h) for a registered (K, h) and on_any(h) for a registered wildcard h
\* leave every registration as it was, so no list ever holds a handler twice and
\* an emit invokes h once through that registration.
C5_SubscribeIdempotent ==
    [][/\ called' \in {"on_again", "on_any_again"} =>
             UNCHANGED <<handlers, wildcard_handlers>>
       /\ \A K \in EventType : NoDuplicate(handlers'[K])
       /\ NoDuplicate(wildcard_handlers')
       /\ \A em \in Emissions', h \in Handlers :
             Invoked(em, h) <= Registered(em.forKind, h) + Registered(em.forAny, h)]_vars

\* on(K, h) has just been called for a pair that was registered already
C5_Witness ==
    /\ called = "on_again"
    /\ \E K \in EventType, h \in Handlers : Contains(handlers[K], h)

\* C6: an emit called after clear() returned and before any new subscription
\* finds no handler and invokes none.
C6_NothingAfterClear ==
    \A em \in Emissions :
        em.afterClear # "no" => em.list = <<>> /\ em.started = <<>> /\ em.pc # "handler"

\* an emit has returned without invoking anything after a clear() that dropped
\* specific and wildcard registrations
C6_Witness ==
    /\ done.pc = "returned"
    /\ done.afterClear = "dropped"
    /\ done.started = <<>>

\* C7 as stated: an emit that returned has invoked exactly once every handler
\* registered for its kind or as a wildcard when it was called, and no other.
C7_AsStated ==
    done.pc = "returned" =>
        \A h \in Handlers :
            Invoked(done, h) =
                IF Contains(done.forKind, h) \/ Contains(done.forAny, h) THEN 1 ELSE 0

\* C7: an emit that returned has invoked every handler once for each of its
\* registrations at the time of the call (once for the kind, once as a wildcard),
\* each time with the kind and the payload of the call, and no other handler.
C7_OncePerRegistration ==
    done.pc = "returned" =>
        /\ \A h \in Handlers :
              Invoked(done, h) = Registered(done.forKind, h) + Registered(done.forAny, h)
        /\ \A i \in 1..Len(done.started) :
              done.started[i].kind = done.kind /\ done.started[i].payload = done.payload

\* an emit has returned after invoking twice a handler registered for its kind and
\* as a wildcard
C7_Witness ==
    /\ done.pc = "returned"
    /\ \E h \in Handlers :
          /\ Contains(done.forKind, h)
          /\ Contains(done.forAny, h)
          /\ Invoked(done, h) = 2

\* C8: within one emit the handlers are invoked in the order of the list for the
\* kind followed by the wildcard list, each after the one before it has ended, and
\* emit returns after the last has ended; on() and on_any() append, so the order
\* of a list is the order of subscription.
C8_OneAtATimeInOrder ==
    [][/\ \A em \in Emissions' :
             /\ \A i \in 1..Len(em.started) :
                   em.started[i].handler = (em.forKind \o em.forAny)[i]
             /\ em.pc = "handler" => Len(em.started) = em.ended + 1
             /\ em.pc = "returned" =>
                   /\ em.ended = Len(em.started)
                   /\ Len(em.started) = Len(em.forKind) + Len(em.forAny)
       /\ called' = "on" =>
             \E K \in EventType, h \in Handlers :
                 handlers' = [handlers EXCEPT ![K] = Append(@, h)]
       /\ called' = "on_any" =>
             \E h \in Handlers : wildcard_handlers' = Append(wildcard_handlers, h)]_vars

\* an emit has returned after two handlers for its kind and a wildcard handler
C8_Witness ==
    /\ done.pc = "returned"
    /\ Len(done.forKind) >= 2
    /\ Len(done.forAny) >= 1
    /\ done.ended = Len(done.forKind) + Len(done.forAny)

\* C9: off(K, h) removes the registration of h for K and nothing else when it is
\* present, changes nothing when it is absent, and raises in neither case.
C9_Unsubscribe ==
    [][/\ called' # "off_raised"
       /\ called' = "off_absent" => UNCHANGED <<handlers, wildcard_handlers>>
       /\ called' = "off" =>
             /\ UNCHANGED wildcard_handlers
             /\ \E K \in EventType, h \in Handlers :
                   /\ Contains(handlers[K], h)
                   /\ ~Contains(handlers'[K], h)
                   /\ handlers' = [handlers EXCEPT
                                      ![K] = SelectSeq(@, LAMBDA x : x # h)]]_vars

\* off(K, h) has just removed a registration and left another one for K in place
C9_Witness ==
    /\ called = "off"
    /\ \E K \in EventType : Len(handlers[K]) = 1

\* the handler lists that the emit calls have resolved
Resolved == {em \in Emissions : em.pc \in {"handler", "returned"}}

\* C10 as stated: once clear() has been called, every emit has resolved either
\* the complete set of handlers registered before the clear or the empty set.
C10_ClearAtomicForEmit ==
    clear_pc # "idle" =>
        \A em \in Resolved :
            \/ em.list = Collect(pre_clear.handlers, pre_clear.wildcard_handlers, em.kind)
            \/ em.list = <<>>

\* C21: the emits a task makes one after the other deliver in that order: when a
\* handler of an emit is invoked, no invocation of an earlier emit of the same
\* task is still running, because emit returns only when none of its
\* invocations runs.
C21_FifoPerEmitter ==
    \A t \in Emitters :
        /\ emits[t].pc = "handler" => ~\E u \in unawaited : u.task = t /\ u.earlier
        /\ emits[t].pc = "idle" =>
              /\ inv_state[t] = "none"
              /\ ~\E u \in unawaited : u.task = t

\* a task is in a handler of a later emit after an earlier emit of it had invoked
\* handlers, while the other task is in an emit too
C21_Witness ==
    \E t \in Emitters :
        /\ earlier[t]
        /\ emits[t].pc = "handler"
        /\ \E o \in Emitters \ {t} : emits[o].pc = "handler"

C23_ThreadSafe ==
    /\ \A K \in EventType :
          \A i, j \in 1..Len(handlers[K]) :
              Equals(handlers[K][i], handlers[K][j]) => i = j
    /\ \A th \in Threads : calls[th].pc # "raised"

\* C29 as stated: an emit invokes the handlers of the lists as they were when it
\* was called, whatever on, off, on_any or clear does while it is in flight.
C29_EmitUsesSnapshotAtCall ==
    /\ \A t \in Tasks : emits[t].pc = "handler" => emits[t].list = emits[t].atCall
    /\ done.pc = "returned" => done.list = done.atCall

\* C27 as stated: subscriptions go by the identity of the handler object: on(K, h)
\* for an object h that is none of the objects registered for K adds a
\* registration of h, and off(K, h) leaves the registration of every other object
\* in place.
C27_ByIdentity ==
    [][\A K \in EventType, h \in HandlerObjects :
          /\ (On(K, h) /\ ~Contains(handlers[K], h))
                => handlers'[K] = Append(handlers[K], h)
          /\ Off(K, h)
                => \A g \in HandlerObjects \ {h} :
                      Contains(handlers[K], g) => Contains(handlers'[K], g)]_vars

(***************************************************************************)
(* Properties of the application.                                          *)
(***************************************************************************)
\* C11 as stated: once a turn has begun, the process leaves the turn loop only by
\* a user interrupt or an exit keyword; no failure raised during a turn escapes
\* run.
C11_OnlyInterruptOrExitEndsLoop ==
    apc = "exited" /\ turn.stt > 0 => ended_by \in {"interrupt", "exit_keyword"}

\* a turn has run to its end without an exception
TurnCompleted == apc = "loop" /\ turn.stt > 0 /\ ~turn.caught

\* C15: a turn makes its calls one after the other with never two of them in
\* flight: one speech-recognition call first, then at most one chat call (none
\* when the transcript is classified as an error) and at most two speak calls;
\* a completed turn has made one chat call unless the transcript was an error,
\* and one speak call, or two when a transcript longer than 20 characters was
\* acknowledged before the chat call.
C15_TurnCallsSequential ==
    /\ Cardinality(inflight) <= 1
    /\ turn.stt <= 1 /\ turn.chat <= 1 /\ turn.speak <= 2
    /\ apc = "stt" => inflight = {"stt"} /\ turn.chat = 0 /\ turn.speak = 0
    /\ apc = "chat" => inflight = {"chat"} /\ turn.stt = 1 /\ turn.chat = 1
    /\ apc \in {"fallback", "ack", "respond"} => inflight = {"speak"} /\ turn.stt = 1
    /\ apc = "fallback" => turn.chat = 0 /\ turn.speak = 1
    /\ apc = "ack" => turn.chat = 0 /\ turn.speak = 1
    /\ apc = "respond" => turn.chat = 1
    /\ TurnCompleted =>
          /\ turn.stt = 1
          /\ turn.chat = (IF turn.is_error THEN 0 ELSE 1)
          /\ turn.speak = (IF ~turn.is_error /\ CharLen(turn.user_input) > AckThreshold
                           THEN 2 ELSE 1)

\* a completed turn that acknowledged a long transcript, asked the provider and spoke the reply
C15_Witness ==
    /\ TurnCompleted
    /\ turn.stt = 1 /\ turn.chat = 1 /\ turn.speak = 2
    /\ CharLen(turn.user_input) > AckThreshold

\* C15 as stated: every completed turn has made exactly one call of each kind
C15_AsStated ==
    TurnCompleted =>
        /\ turn.stt = 1 /\ turn.chat = 1 /\ turn.speak = 1
        /\ Cardinality(inflight) <= 1

\* C16: chat_with_gemini returns to the turn whatever the provider call does;
\* when the provider call raised, what it returns is the fixed apology of the
\* except branch, and the chat session self.chat is the one it was before.
C16_ChatFailureReturnsApology ==
    [][apc = "chat" /\ apc' \notin {"chat", "exited"}
       => /\ apc' = "respond"
          /\ ~turn'.caught
          /\ chat' = chat
          /\ turn'.said = turn'.reply
          /\ turn'.reply_failed => turn'.reply = Apology(variant)]_vars

\* the response being spoken is the apology of a failed provider call
C16_Witness ==
    /\ apc = "respond" /\ turn.reply_failed
    /\ turn.reply = Apology(variant) /\ chat = "session"

\* C17: a turn whose speech recognition failed holds a fallback message that is
\* classified as an error, makes no chat call, speaks the fallback, and does not
\* end the loop: the process goes on unless the user interrupts it.
C17_FailedRecognitionKeepsLoop ==
    turn.failure # "none" =>
        /\ turn.is_error
        /\ turn.user_input \in random_error(FallbackMessages(turn.failure))
        /\ turn.chat = 0
        /\ apc = "fallback" => turn.said = turn.user_input
        /\ apc = "exited" => ended_by = "interrupt"

\* no exception has been raised or caught and no interrupt has arrived
Undisturbed ==
    /\ ~turn.caught
    /\ ended_by \in {"none", "exit_keyword"}
    /\ exit_status \in {-1, 0}

\* C28: absent interrupts and raised errors, run goes from one turn to the next
\* until the turn of a transcript that holds no error pattern and whose lowercase
\* form is exit, quit, bye or goodbye; that turn has called the chat provider once
\* and spoken its reply, then the loop ends, the goodbye is spoken once, cleanup
\* runs and the process ends with status 0.  The turn of a transcript classified
\* as a recognition error goes back to the loop.
C28_LoopEndsOnExitWord ==
    [][Undisturbed' =>
          /\ apc = "loop" => apc' = "stt"
          /\ apc = "fallback" => turn.is_error /\ apc' = "loop"
          /\ apc = "respond" =>
                IF Lower(turn.user_input) \in ExitWords
                THEN /\ apc' = "goodbye"
                     /\ ~turn.is_error
                     /\ turn.chat = 1 /\ turn.speak >= 1 /\ turn.said = turn.reply
                     /\ turn'.said = GoodbyeMessage
                ELSE apc' = "loop"
          /\ apc' = "goodbye" => apc = "respond"
          /\ apc = "goodbye" => apc' = "cleanup"
          /\ apc = "cleanup" =>
                apc' = "exited" /\ exit_status' = 0 /\ ended_by' = "exit_keyword"
          /\ apc' = "exited" => apc = "cleanup"]_vars

\* the process has ended after the turn of the transcript EXIT: the reply was
\* spoken, then the goodbye, then cleanup ran
C28_Witness ==
    /\ apc = "exited" /\ exit_status = 0 /\ ended_by = "exit_keyword"
    /\ turn.user_input = <<"EXIT">> /\ ~turn.is_error
    /\ turn.chat = 1 /\ turn.reply # <<>>
    /\ turn.said = GoodbyeMessage

\* C19: the text chat_with_gemini has returned to the turn holds no denylisted
\* character, whether the provider answered or raised.
C19_ReplyHasNoSpecialCharacter ==
    \A i \in 1..Len(turn.reply) : turn.reply[i] \notin special_chars

\* C20: without the credential in the environment the process never reaches a
\* turn: Chatbot() raises the ValueError that names GEMINI_API_KEY, main exits
\* with status 1 before AIVtuber is constructed, and either way the provider
\* was not configured and no chat session was started.  Only a constructor
\* that is handed the key as an argument gets past this.
C20_MissingKeyFailsAtStartup ==
    /\ ~Truthy(env_key) /\ apc \notin {"main", "chatbot_ready"} =>
          /\ apc = "exited"
          /\ exit_status # 0 /\ exit_status # -1
          /\ ended_by \in {"no_key", NewChatbot("unset", "unset").error}
          /\ ~configured
          /\ chat = "none"
          /\ turn = NoTurn /\ inflight = {}
    /\ apc = "chatbot_ready" => configured /\ chat = "session"
    /\ NewChatbot("unset", "unset").error
          = "ValueError: GEMINI_API_KEY environment variable not set"

\* Chatbot() has raised its ValueError with the credential missing
C20_Witness ==
    /\ ~Truthy(env_key)
    /\ apc = "exited" /\ exit_status = 1
    /\ ended_by = "ValueError: GEMINI_API_KEY environment variable not set"
    /\ ~configured /\ chat = "none"

(***************************************************************************)
(* Properties of the text sanitizer.                                       *)
(***************************************************************************)
\* the positions of text whose character is not on the denylist
KeptPositions(text) == {i \in 1..Len(text) : text[i] \notin special_chars}

\* C18: remove_special_characters(text) consists of the characters of text that
\* are not on the denylist, each once and in the order they have in text, for
\* every text including the empty one; it holds no denylisted character, and
\* applying the function to its own result returns that result.
C18_SanitizerKeepsTheRest ==
    /\ spc \in {"once", "twice"} =>
          LET P == KeptPositions(raw_text)
          IN /\ Len(clean_text) = Cardinality(P)
             /\ \A i \in P : clean_text[Cardinality({j \in P : j <= i})] = raw_text[i]
             /\ \A i \in 1..Len(clean_text) : clean_text[i] \notin special_chars
             /\ raw_text = <<>> => clean_text = <<>>
             /\ P = {} => clean_text = <<>>
             /\ P = 1..Len(raw_text) => clean_text = raw_text
    /\ spc = "twice" => clean_twice = clean_text

\* a text with a Thai letter, a pictograph and a digit or a space, filtered twice
C18_Witness ==
    /\ spc = "twice"
    /\ Len(raw_text) = 3 /\ Len(clean_text) = 2
    /\ \E i \in 1..3 : raw_text[i] = "heart"
    /\ \E i \in 1..3 : raw_text[i] = "ko_kai"
    /\ \E i \in 1..3 : raw_text[i] \in {"7", " "}
    /\ clean_twice = clean_text

====
